---- MODULE Spec2Model ----
(***************************************************************************)
(* Slide-to-map synchronisation engine of StoryMapCore.                    *)
(*                                                                         *)
(* Two programs share the engine and are modelled side by side, selected   *)
(* by the variable impl:                                                   *)
(*   "lib"    the StoryMap class (docs/SimpleStoryMapLibJS/storymap-core.js)*)
(*   "script" the standalone example script (the multilingual example in   *)
(*            storymapcore/providers/data-providers.js lines 401-1123; the *)
(*            Obama and Arya scripts are the same code without the         *)
(*            language switch).                                            *)
(* Every event handler and timer callback is one atomic action (the page   *)
(* is single threaded).  Handlers are written as operators from a state    *)
(* record to a state record, one operator per function of the source, so   *)
(* that a handler is the composition of the functions it calls.            *)
(*                                                                         *)
(* Slide indices are 0-based as in the source; storyData is a TLA+         *)
(* sequence, so slide i is storyData[i + 1].                               *)
(*                                                                         *)
(* Map surface (MapLibre GL): a source or layer can be added only once the *)
(* style has loaded, which the model places at the 'load' event (mapPhase  *)
(* "loaded"); adding a source whose id exists throws; flyTo, getSource and *)
(* getLayer never throw.                                                   *)
(*                                                                         *)
(* The variables moves, threw, updated and op record what the last handler *)
(* that passed its guard did; a handler whose guard rejects the request    *)
(* changes nothing.                                                        *)
(***************************************************************************)
EXTENDS Integers, Sequences, FiniteSets, Bags, TLC

\* ------------------------------------------------------------------ bounds
MaxSlides == 3

\* Longest slide sequence of the slide-position computations.
MaxLength == 10

\* ------------------------------------------------------------- slide data
\* A slide is abstracted to what the engine reads of it: its location
\* ("none": no usable lat/lon, "point": valid, "line": valid with
\* line === true) and whether it has a text object.
LocKinds == {"none", "point", "line"}

SlidesOf(texts) == [loc : LocKinds, text : texts]

StoriesOver(texts) ==
  UNION {[1..n -> SlidesOf(texts)] : n \in 1..MaxSlides}

\* storyData[i] of a JavaScript array: undefined outside the array.
Undefined == [loc |-> "undefined", text |-> FALSE]

SlideAt(story, i) ==
  IF i >= 0 /\ i < Len(story) THEN story[i + 1] ELSE Undefined

\* Locations told apart where the path segments are built: besides the
\* kinds above, "lineish" (valid, with a line property that is truthy but
\* not true, such as "true" or 1) and "unplaced line" (line === true
\* without usable lat/lon).
LineLocKinds == LocKinds \cup {"lineish", "unplaced line"}

LineStories ==
  UNION {[1..n -> [loc : LineLocKinds, text : {TRUE}]] : n \in 1..MaxSlides}

\* isValidLocation on the abstract location.
isValidLocation(location) == location \in {"point", "line", "lineish"}

\* location.line === true.
lineIsTrue(location) == location \in {"line", "unplaced line"}

\* The language code that is no key of the catalog.
NoLanguage == <<>>

\* The language catalog holds one language per story; a language is named
\* by its slide sequence.
HasLanguage(texts, code) ==
  /\ Len(code) \in 1..MaxSlides
  /\ \A k \in 1..Len(code) : code[k] \in SlidesOf(texts)

\* The code of a catalog entry without a storymap object
\* (fullData.storymaps[code] = {}): the entry is truthy, its slide sequence
\* is missing.
BareEntry == <<Undefined>>

\* fullData.storymaps[code] is truthy.
InCatalog(texts, code) == HasLanguage(texts, code) \/ code = BareEntry

\* The languages the selector is moved to from the language with sequence
\* story: a switch reads the replaced sequence only through its length, so
\* the options are the sequences of which story is a prefix or that are a
\* prefix of it, and those of its length that differ from it in one slide.
IsPrefix(a, b) == Len(a) <= Len(b) /\ SubSeq(b, 1, Len(a)) = a

Selectable(texts, story) ==
  {new \in StoriesOver(texts) :
     \/ IsPrefix(new, story)
     \/ IsPrefix(story, new)
     \/ /\ Len(new) = Len(story)
        /\ Cardinality({k \in 1..Len(story) : new[k] # story[k]}) = 1}

\* storyData.find(slide => isValidLocation(slide.location)), as an index
\* (-1: no such slide).
FirstValidIndex(story) ==
  IF \E i \in 1..Len(story) : isValidLocation(story[i].loc)
  THEN (CHOOSE i \in 1..Len(story) :
          /\ isValidLocation(story[i].loc)
          /\ \A j \in 1..(i - 1) : ~isValidLocation(story[j].loc)) - 1
  ELSE -1

\* The condition of createAllLines with a truthiness test of line.
SegmentSourcesTruthy(story) ==
  {i \in 0..(Len(story) - 2) :
     /\ story[i + 1].loc \in {"line", "unplaced line", "lineish"}
     /\ isValidLocation(story[i + 1].loc)
     /\ isValidLocation(story[i + 2].loc)}

\* Source indices i of the adjacent pairs (i, i+1) that get a path segment.
SegmentSources(story) ==
  {i \in 0..(Len(story) - 2) :
     /\ lineIsTrue(story[i + 1].loc)
     /\ isValidLocation(story[i + 1].loc)
     /\ isValidLocation(story[i + 2].loc)}

\* Slide indices that get a marker feature.
ValidIndices(story) ==
  {i \in 0..(Len(story) - 1) : isValidLocation(story[i + 1].loc)}

SeqToSet(q) == {q[k] : k \in 1..Len(q)}

NoContent == [idx |-> -1, stale |-> FALSE]
NoProgress == [cur |-> 0, total |-> 0]

VARIABLES
  impl,              \* "lib" or "script"
  texts,             \* the text values slides of the catalog may have
  storyData,         \* the active slide sequence
  currentLanguage,   \* code of the active language
  currentSlideIndex,
  isAnimating,
  timers,            \* pending setTimeout callbacks of the animation chain
  mapPhase,          \* "none" | "created" | "loaded"
  loadHandler,       \* a map 'load' handler is registered
  listeners,         \* button and keydown listeners are registered
  langSelector,      \* the language selector's change listener is registered
  sources,           \* the two marker sources and layers exist on the map
  inactive,          \* slideIndex of the features of "inactive-markers", a bag
  active,            \* slideIndex of the features of "active-marker"
  lines,             \* targetSlideIndex of the entries of the lines array
  lineLayers,        \* source indices i whose layer line-i is on the map
  activeLines,       \* the line layers painted in the active colour
  prevDisabled, nextDisabled, restartDisabled,
  progress,          \* the progress text, as [cur, total]
  shown,             \* the slide whose headline/text/media is displayed
  moves,             \* camera moves issued by the last handler
  threw,             \* the last handler ended by an uncaught exception
  updated,           \* the last handler ran updateSlide to its end
  op,                \* the last request that passed its guard
  themes,            \* names of the themes of the global themeBuilder
  currentTheme,      \* themeBuilder.currentTheme
  themeStyles,       \* themes whose <style id="storymap-theme-..."> is in head
  brokenThemes,      \* themes stored without a section generateCSS reads
  twin,              \* the standalone script run beside the class (NoTwin:
                     \* a single program runs)
  clickHandlers      \* click handlers registered on each marker layer, as
                     \* counted by SpecClicks (elsewhere a click is
                     \* dispatched to one handler)

vars == <<impl, texts, storyData, currentLanguage, currentSlideIndex,
          isAnimating, timers, mapPhase, loadHandler, listeners, langSelector,
          sources, inactive, active, lines, lineLayers, activeLines,
          prevDisabled, nextDisabled, restartDisabled, progress, shown,
          moves, threw, updated, op, themes, currentTheme, themeStyles,
          brokenThemes, twin, clickHandlers>>

\* The program state as one record, the argument of the handler operators.
State ==
  [impl |-> impl, texts |-> texts, storyData |-> storyData,
   currentLanguage |-> currentLanguage,
   currentSlideIndex |-> currentSlideIndex, isAnimating |-> isAnimating,
   timers |-> timers, mapPhase |-> mapPhase, loadHandler |-> loadHandler,
   listeners |-> listeners, langSelector |-> langSelector,
   sources |-> sources, inactive |-> inactive, active |-> active,
   lines |-> lines, lineLayers |-> lineLayers, activeLines |-> activeLines,
   prevDisabled |-> prevDisabled, nextDisabled |-> nextDisabled,
   restartDisabled |-> restartDisabled, progress |-> progress,
   shown |-> shown, moves |-> moves, threw |-> threw,
   updated |-> updated, op |-> op, themes |-> themes,
   currentTheme |-> currentTheme, themeStyles |-> themeStyles,
   brokenThemes |-> brokenThemes, accepted |-> FALSE]

FieldsBecome(t) ==
  /\ impl' = t.impl /\ texts' = t.texts /\ storyData' = t.storyData
  /\ currentLanguage' = t.currentLanguage
  /\ currentSlideIndex' = t.currentSlideIndex
  /\ isAnimating' = t.isAnimating /\ timers' = t.timers
  /\ mapPhase' = t.mapPhase /\ loadHandler' = t.loadHandler
  /\ listeners' = t.listeners /\ langSelector' = t.langSelector
  /\ sources' = t.sources /\ inactive' = t.inactive /\ active' = t.active
  /\ lines' = t.lines /\ lineLayers' = t.lineLayers
  /\ activeLines' = t.activeLines
  /\ prevDisabled' = t.prevDisabled /\ nextDisabled' = t.nextDisabled
  /\ restartDisabled' = t.restartDisabled /\ progress' = t.progress
  /\ shown' = t.shown /\ moves' = t.moves
  /\ threw' = t.threw /\ updated' = t.updated /\ op' = t.op
  /\ themes' = t.themes /\ currentTheme' = t.currentTheme
  /\ themeStyles' = t.themeStyles /\ brokenThemes' = t.brokenThemes

BecomesV(t) ==
  FieldsBecome(t) /\ twin' = twin /\ clickHandlers' = clickHandlers

\* The outcome x of a handler: the next state when the handler passed its
\* guard, no change otherwise.
Becomes(x) ==
  \E t \in {x} : IF t.accepted THEN BecomesV(t) ELSE UNCHANGED vars

\* The start of a handler: the per-handler observations are reset.
Begin(s, name) ==
  [s EXCEPT !.moves = <<>>, !.threw = FALSE, !.updated = FALSE,
            !.accepted = FALSE, !.op = name]

\* An uncaught exception: the rest of the handler does not run.
Throw(s) == [s EXCEPT !.threw = TRUE]

Accept(s) == [s EXCEPT !.accepted = TRUE]


\* ------------------------------------------------------------ map surface
HasMap(s) == s.mapPhase # "none"

\* map.addSource / map.addLayer succeed only once the style has loaded.
StyleLoaded(s) == s.mapPhase = "loaded"

\* map.flyTo({center, zoom, essential}) to the location of slide i.
flyTo(s, i) == [s EXCEPT !.moves = Append(@, i)]

\* ------------------------------------------------------------ path layer
\* createLineSegment / the body of the createAllLines loop for source i:
\* addSource and addLayer (inactive colour), then lines.push.
createLineSegment(s, i) ==
  IF ~StyleLoaded(s) \/ i \in s.lineLayers THEN Throw(s)
  ELSE [s EXCEPT !.lineLayers = @ \cup {i},
                 !.activeLines = @ \ {i},
                 !.lines = Append(@, i + 1)]

RECURSIVE createLinesFrom(_, _)
createLinesFrom(s, i) ==
  IF s.threw \/ i >= Len(s.storyData) - 1 THEN s
  ELSE createLinesFrom(
         IF i \in SegmentSources(s.storyData) THEN createLineSegment(s, i)
         ELSE s,
         i + 1)

createAllLines(s) ==
  IF s.threw \/ (s.impl = "lib" /\ ~HasMap(s)) THEN s
  ELSE createLinesFrom(s, 0)

\* A style pass that flips the colour of the line to the current slide
\* instead of setting it.
updateLineColorsToggling(s) ==
  IF s.threw \/ (s.impl = "lib" /\ ~HasMap(s)) THEN s
  ELSE LET hot == {t - 1 : t \in {u \in SeqToSet(s.lines) :
                                    u = s.currentSlideIndex}}
       IN [s EXCEPT !.activeLines = (@ \ hot) \cup (hot \ @)]

\* A style pass that also forgets the line to the current slide.
updateLineColorsForgetting(s) ==
  IF s.threw \/ (s.impl = "lib" /\ ~HasMap(s)) THEN s
  ELSE LET ids == {t - 1 : t \in SeqToSet(s.lines)}
           hot == {t - 1 : t \in {u \in SeqToSet(s.lines) :
                                    u = s.currentSlideIndex}}
       IN [s EXCEPT !.activeLines = (@ \ ids) \cup hot,
                    !.lines = SelectSeq(@, LAMBDA t :
                                             t # s.currentSlideIndex)]

\* updateLineColors: a style pass over the lines array.
updateLineColors(s) ==
  IF s.threw \/ (s.impl = "lib" /\ ~HasMap(s)) THEN s
  ELSE LET ids == {t - 1 : t \in SeqToSet(s.lines)}
           hot == {t - 1 : t \in {u \in SeqToSet(s.lines) :
                                    u = s.currentSlideIndex}}
       IN [s EXCEPT !.activeLines = (@ \ ids) \cup hot]

\* ---------------------------------------------------------- marker layer
createInactiveMarkers(s) ==
  IF s.threw \/ (s.impl = "lib" /\ ~HasMap(s)) THEN s
  ELSE IF ~StyleLoaded(s) \/ s.sources THEN Throw(s)
  ELSE [s EXCEPT !.inactive = SetToBag(ValidIndices(s.storyData))]

createActiveMarker(s) ==
  IF s.threw \/ (s.impl = "lib" /\ ~HasMap(s)) THEN s
  ELSE IF ~StyleLoaded(s) \/ s.sources THEN Throw(s)
  ELSE [s EXCEPT !.active = <<>>, !.sources = TRUE]

getPreviouslyActiveMarkerIndex(s) ==
  IF s.sources /\ Len(s.active) > 0 THEN s.active[1] ELSE -1

\* moveMarkerToInactive that removes the feature from the active source
\* without adding it to the inactive source.
moveMarkerToInactiveDropping(s, slideIndex) ==
  IF s.threw \/ ~s.sources \/ Len(s.active) = 0 THEN s
  ELSE [s EXCEPT !.active = <<>>]

moveMarkerToInactive(s, slideIndex) ==
  IF s.threw \/ ~s.sources \/ Len(s.active) = 0 THEN s
  ELSE [s EXCEPT !.inactive = @ (+) SetToBag({s.active[1]}),
                 !.active = <<>>]

\* moveMarkerToActive that copies the feature instead of moving it.
moveMarkerToActiveCopying(s, slideIndex) ==
  IF s.threw \/ ~s.sources THEN s
  ELSE IF ~BagIn(slideIndex, s.inactive) THEN s
  ELSE [s EXCEPT !.active = <<slideIndex>>]

\* moveMarkerToActive stopped half-way in the other order: the feature is
\* spliced out of the inactive source and not installed in the active one.
moveMarkerToActiveRemoving(s, slideIndex) ==
  IF s.threw \/ ~s.sources THEN s
  ELSE IF ~BagIn(slideIndex, s.inactive) THEN s
  ELSE [s EXCEPT !.inactive = @ (-) SetToBag({slideIndex})]

moveMarkerToActive(s, slideIndex) ==
  IF s.threw \/ ~s.sources THEN s
  ELSE IF ~BagIn(slideIndex, s.inactive) THEN s
  ELSE [s EXCEPT !.active = <<slideIndex>>,
                 !.inactive = @ (-) SetToBag({slideIndex})]

\* The lib tests the current slide's location before activating its marker
\* (storyData[currentSlideIndex].location throws on a missing slide); the
\* script calls moveMarkerToActive unconditionally.
ActivateCurrent(s) ==
  IF s.threw THEN s
  ELSE IF s.impl = "script" THEN moveMarkerToActive(s, s.currentSlideIndex)
  ELSE IF SlideAt(s.storyData, s.currentSlideIndex) = Undefined THEN Throw(s)
  ELSE IF isValidLocation(SlideAt(s.storyData, s.currentSlideIndex).loc)
       THEN moveMarkerToActive(s, s.currentSlideIndex)
  ELSE s

createAllMarkers(s) ==
  IF s.threw \/ (s.impl = "lib" /\ ~HasMap(s)) THEN s
  ELSE ActivateCurrent(createActiveMarker(createInactiveMarkers(s)))

\* updateMarkerColors that leaves the previously active marker in place.
updateMarkerColorsKeepingPrevious(s) ==
  IF s.threw \/ (s.impl = "lib" /\ ~HasMap(s)) THEN s
  ELSE IF s.currentSlideIndex # getPreviouslyActiveMarkerIndex(s)
       THEN ActivateCurrent(s)
  ELSE s

updateMarkerColors(s) ==
  IF s.threw \/ (s.impl = "lib" /\ ~HasMap(s)) THEN s
  ELSE LET previousActiveIndex == getPreviouslyActiveMarkerIndex(s)
           s1 == IF previousActiveIndex # -1
                    /\ previousActiveIndex # s.currentSlideIndex
                 THEN moveMarkerToInactive(s, previousActiveIndex)
                 ELSE s
       IN IF s.currentSlideIndex # previousActiveIndex
          THEN ActivateCurrent(s1)
          ELSE s1

\* clearMapElements that removes the markers only.
clearMapElementsKeepingLines(s) ==
  IF s.threw THEN s
  ELSE [s EXCEPT !.sources = FALSE, !.inactive = EmptyBag,
                 !.active = <<>>, !.lines = <<>>]

\* clearMapElements (script): removes the marker layers and sources and
\* every layer and source of the lines array.
clearMapElements(s) ==
  IF s.threw THEN s
  ELSE LET ids == {t - 1 : t \in SeqToSet(s.lines)}
       IN [s EXCEPT !.sources = FALSE, !.inactive = EmptyBag,
                    !.active = <<>>,
                    !.lineLayers = @ \ ids, !.activeLines = @ \ ids,
                    !.lines = <<>>]


\* ------------------------------------------------------------ slide update
\* The content swap: headline, text and media of the slide at index i.
ShowSlide(s, i) == [s EXCEPT !.shown = [idx |-> i, stale |-> FALSE]]

\* The start of an animated transition: isAnimating = true, the exit class,
\* and the exit timer, whose callback holds the slide object.  ok records
\* whether the callback can read slide.text.headline (the lib reads
\* slide.text?.headline, which never throws).
StartAnimation(s, slide) ==
  [s EXCEPT !.isAnimating = TRUE,
            !.timers = Append(@, [phase |-> "exit",
                                  ok |-> (s.impl = "lib")
                                         \/ (slide # Undefined /\ slide.text),
                                  idx |-> s.currentSlideIndex,
                                  stale |-> FALSE])]

updateProgress(s) ==
  IF s.threw THEN s
  ELSE [s EXCEPT !.progress = [cur |-> s.currentSlideIndex + 1,
                               total |-> Len(s.storyData)]]

\* updateButtonStates with canGoNext = index < length.
updateButtonStatesOffByOne(s) ==
  IF s.threw THEN s
  ELSE [s EXCEPT !.prevDisabled = ~(s.currentSlideIndex > 0),
                 !.restartDisabled = ~(s.currentSlideIndex > 0),
                 !.nextDisabled = ~(s.currentSlideIndex < Len(s.storyData))]

\* The lib computes canGoBack = index > 0 and canGoNext = index < length - 1;
\* the script compares index === 0 and index === length - 1.
updateButtonStates(s) ==
  IF s.threw THEN s
  ELSE IF s.impl = "lib"
  THEN [s EXCEPT !.prevDisabled = ~(s.currentSlideIndex > 0),
                 !.restartDisabled = ~(s.currentSlideIndex > 0),
                 !.nextDisabled =
                    ~(s.currentSlideIndex < Len(s.storyData) - 1)]
  ELSE [s EXCEPT !.prevDisabled = (s.currentSlideIndex = 0),
                 !.restartDisabled = (s.currentSlideIndex = 0),
                 !.nextDisabled =
                    (s.currentSlideIndex = Len(s.storyData) - 1)]

\* flyToSlide (lib): guarded by the slide, its location and the map.
flyToSlide(s, slideIndex) ==
  IF s.threw THEN s
  ELSE IF /\ SlideAt(s.storyData, slideIndex) # Undefined
          /\ isValidLocation(SlideAt(s.storyData, slideIndex).loc)
          /\ HasMap(s)
       THEN flyTo(s, slideIndex)
  ELSE s

updateMapElements(s) ==
  IF s.threw \/ ~HasMap(s) THEN s
  ELSE updateMarkerColors(updateLineColors(s))

\* StoryMap.updateSlide(direction) with updateContent.
libUpdateSlide(s, direction) ==
  LET slide == SlideAt(s.storyData, s.currentSlideIndex)
      s1 == IF direction # "none" /\ ~s.isAnimating
            THEN StartAnimation(s, slide)
            ELSE ShowSlide(s, s.currentSlideIndex)
      s2 == IF isValidLocation(slide.loc)
            THEN flyToSlide(s1, s.currentSlideIndex)
            ELSE s1
      s3 == updateMapElements(updateButtonStates(updateProgress(s2)))
  IN IF s.threw \/ slide = Undefined THEN s
     ELSE IF s3.threw THEN s3 ELSE [s3 EXCEPT !.updated = TRUE]

\* updateSlide(direction) of the standalone script.  Without animation the
\* content is written first (slide.text.headline throws on a missing slide
\* or text); slide.location throws on a missing slide.
scriptUpdateSlide(s, direction) ==
  LET slide == SlideAt(s.storyData, s.currentSlideIndex)
      s1 == IF direction # "none" /\ ~s.isAnimating
            THEN StartAnimation(s, slide)
            ELSE IF slide # Undefined /\ slide.text
                 THEN ShowSlide(s, s.currentSlideIndex)
                 ELSE Throw(s)
      s2 == IF s1.threw THEN s1
            ELSE IF slide = Undefined THEN Throw(s1)
            ELSE IF isValidLocation(slide.loc)
                 THEN flyTo(s1, s.currentSlideIndex)
            ELSE s1
      s3 == updateButtonStates(
              updateProgress(updateMarkerColors(updateLineColors(s2))))
  IN IF s.threw THEN s
     ELSE IF s3.threw THEN s3 ELSE [s3 EXCEPT !.updated = TRUE]

updateSlide(s, direction) ==
  IF s.impl = "lib" THEN libUpdateSlide(s, direction)
  ELSE scriptUpdateSlide(s, direction)

\* -------------------------------------------------------------- navigation
\* navigatePrevious / the prev-btn click handler.
navigatePrevious(s) ==
  IF s.currentSlideIndex > 0 /\ ~s.isAnimating
  THEN updateSlide(
         Accept([s EXCEPT !.currentSlideIndex = @ - 1]), "prev")
  ELSE s

\* navigateNext without the test of isAnimating.
navigateNextWhileAnimating(s) ==
  IF s.currentSlideIndex < Len(s.storyData) - 1
  THEN updateSlide(
         Accept([s EXCEPT !.currentSlideIndex = @ + 1]), "next")
  ELSE s

\* navigateNext / the next-btn click handler.
navigateNext(s) ==
  IF s.currentSlideIndex < Len(s.storyData) - 1 /\ ~s.isAnimating
  THEN updateSlide(
         Accept([s EXCEPT !.currentSlideIndex = @ + 1]), "next")
  ELSE s

\* The camera move of restart, to the first slide with a valid location.
RestartFly(s) ==
  IF FirstValidIndex(s.storyData) = -1 THEN s
  ELSE IF s.impl = "lib" THEN flyToSlide(s, FirstValidIndex(s.storyData))
  ELSE flyTo(s, FirstValidIndex(s.storyData))

\* restart: the lib accepts at any index, the script only at index > 0.
restart(s) ==
  IF (s.impl = "lib" \/ s.currentSlideIndex > 0) /\ ~s.isAnimating
  THEN updateSlide(
         RestartFly(Accept([s EXCEPT !.currentSlideIndex = 0])), "none")
  ELSE s

\* navigateToSlide that flies to the target as restart flies to the first
\* slide, without testing the target's location.
navigateToSlideFlying(s, targetIndex) ==
  IF targetIndex >= 0 /\ targetIndex < Len(s.storyData) /\ ~s.isAnimating
  THEN updateSlide(
         flyTo(Accept([s EXCEPT !.currentSlideIndex = targetIndex]),
               targetIndex), "none")
  ELSE s

navigateToSlide(s, targetIndex) ==
  IF targetIndex >= 0 /\ targetIndex < Len(s.storyData) /\ ~s.isAnimating
  THEN updateSlide(
         Accept([s EXCEPT !.currentSlideIndex = targetIndex]), "none")
  ELSE s

\* A marker click handler that navigates with the animation of next.
markerClickAnimated(s, clickedSlideIndex) ==
  IF clickedSlideIndex # s.currentSlideIndex /\ ~s.isAnimating
  THEN updateSlide(
         Accept([s EXCEPT !.currentSlideIndex = clickedSlideIndex]), "next")
  ELSE s

\* A click handler that navigates also to the current slide.
markerClickToAnySlide(s, clickedSlideIndex) ==
  IF ~s.isAnimating THEN navigateToSlide(s, clickedSlideIndex) ELSE s

\* The click handler of the two marker layers.
markerClick(s, clickedSlideIndex) ==
  IF clickedSlideIndex # s.currentSlideIndex /\ ~s.isAnimating
  THEN navigateToSlide(s, clickedSlideIndex)
  ELSE s

\* keydown: the lib calls navigatePrevious / navigateNext; the script
\* repeats the click handler's guard and also tests the button's disabled.
keyArrowLeft(s) ==
  IF s.impl = "lib" THEN navigatePrevious(s)
  ELSE IF ~s.prevDisabled /\ s.currentSlideIndex > 0 /\ ~s.isAnimating
       THEN updateSlide(
              Accept([s EXCEPT !.currentSlideIndex = @ - 1]), "prev")
  ELSE s

\* An ArrowRight handler without the test of isAnimating.
keyArrowRightWhileAnimating(s) ==
  IF s.currentSlideIndex < Len(s.storyData) - 1
     /\ (s.impl = "lib" \/ ~s.nextDisabled)
  THEN updateSlide(
         Accept([s EXCEPT !.currentSlideIndex = @ + 1]), "next")
  ELSE s

keyArrowRight(s) ==
  IF s.impl = "lib" THEN navigateNext(s)
  ELSE IF /\ ~s.nextDisabled
          /\ s.currentSlideIndex < Len(s.storyData) - 1
          /\ ~s.isAnimating
       THEN updateSlide(
              Accept([s EXCEPT !.currentSlideIndex = @ + 1]), "next")
  ELSE s


\* ---------------------------------------------------------------- language
\* The assignment of a new slide sequence: content on screen and slides
\* held by pending timer callbacks now belong to a replaced sequence.
ReplaceStory(s, newSlides) ==
  IF newSlides = s.storyData THEN s
  ELSE [s EXCEPT
          !.storyData = newSlides,
          !.shown = IF @ = NoContent THEN @ ELSE [@ EXCEPT !.stale = TRUE],
          !.timers = [k \in 1..Len(@) |-> [@[k] EXCEPT !.stale = TRUE]]]

Min(a, b) == IF a <= b THEN a ELSE b

Max(a, b) == IF a >= b THEN a ELSE b

\* The new index with Math.round in place of Math.floor.
RatioIndexRounded(index, oldLength, newLength) ==
  Min((2 * index * newLength + oldLength) \div (2 * oldLength),
      newLength - 1)

\* Math.min(Math.floor(currentSlideIndex / oldLength * newLength),
\* newLength - 1); the double arithmetic is exact for the lengths of the
\* model.
RatioIndex(index, oldLength, newLength) ==
  Min((index * newLength) \div oldLength, newLength - 1)

\* switchLanguage of the multilingual script.  The guard tests the catalog
\* entry only; currentLanguage is assigned before the entry's
\* storymap.slides is read, which throws on an entry without storymap.
switchLanguage(s, newLanguage) ==
  IF newLanguage # s.currentLanguage /\ newLanguage = BareEntry
  THEN Throw(Accept([s EXCEPT !.currentLanguage = newLanguage]))
  ELSE IF newLanguage # s.currentLanguage /\ InCatalog(s.texts, newLanguage)
  THEN LET newSlideIndex ==
             RatioIndex(s.currentSlideIndex, Len(s.storyData),
                        Len(newLanguage))
           s1 == ReplaceStory(
                   Accept([s EXCEPT !.currentLanguage = newLanguage]),
                   newLanguage)
           s2 == createAllMarkers(createAllLines(clearMapElements(s1)))
       IN IF s2.threw THEN s2
          ELSE updateSlide(
                 [s2 EXCEPT !.currentSlideIndex = newSlideIndex], "none")
  ELSE s

\* MultilingualDataProvider.switchLanguageWithPosition with
\* maintainSlidePosition: the target index for an available language.
TargetSlideIndex(currentIndex, newLength) ==
  LET t == IF currentIndex >= newLength THEN newLength - 1 ELSE currentIndex
  IN IF t < 0 THEN 0 ELSE t

\* The provider's own fields, in a state of the page.
ProviderOf(s) ==
  [currentLanguage |-> s.currentLanguage, storyData |-> s.storyData]

\* What switchLanguageWithPosition returns: null, or an object with the
\* new slides and the target index.
NullResult == [null |-> TRUE, newSlides |-> <<>>, targetSlideIndex |-> 0]

PositionResult(newSlides, targetSlideIndex) ==
  [null |-> FALSE, newSlides |-> newSlides,
   targetSlideIndex |-> targetSlideIndex]

\* MultilingualDataProvider.switchLanguageWithPosition on the provider p
\* over the catalog of texts: the provider afterwards, what is returned,
\* and whether a TypeError leaves the call; maintain is the option
\* maintainSlidePosition.  switchLanguage returns null
\* for a code that is no truthy key of the catalog; otherwise it assigns
\* currentLanguage and then reads the entry's storymap.slides.
switchLanguageWithPosition(p, catalog, newLanguage, slideIndex, maintain) ==
  IF newLanguage = BareEntry
  THEN [provider |-> [p EXCEPT !.currentLanguage = newLanguage],
        returned |-> NullResult, threw |-> TRUE]
  ELSE IF ~InCatalog(catalog, newLanguage)
  THEN [provider |-> p, returned |-> NullResult, threw |-> FALSE]
  ELSE [provider |-> [currentLanguage |-> newLanguage,
                      storyData |-> newLanguage],
        returned |->
          PositionResult(newLanguage,
            IF ~maintain THEN 0
            ELSE TargetSlideIndex(slideIndex, Len(newLanguage))),
        threw |-> FALSE]

\* The object DataProviders.multilingual returns, in a state of the page:
\* its fields currentLanguage and slides.
ObjectOf(s) == [currentLanguage |-> s.currentLanguage, slides |-> s.storyData]

\* What `this` is inside the arrow functions of the DataProviders literal:
\* the global object in a classic script (or module.exports under
\* CommonJS), undefined in an ES module.
ThisKinds == {"global object", "undefined"}

\* The global object before any call: no currentLanguage, no slides.
GlobalObject == [currentLanguage |-> NoLanguage, slides |-> NoLanguage]

\* What the object's switchLanguage returns: null or a slide sequence.
NullSlides == [null |-> TRUE, slides |-> <<>>]

SlidesResult(slides) == [null |-> FALSE, slides |-> slides]

\* switchLanguage of the object returned by DataProviders.multilingual.
\* It is an arrow function inside an arrow function of an object literal,
\* so its two assignments go to the enclosing `this`, never to the
\* returned object obj.
multilingualSwitchLanguage(obj, global, catalog, newLanguage, thisKind) ==
  IF ~InCatalog(catalog, newLanguage)
  THEN [object |-> obj, global |-> global, returned |-> NullSlides,
        threw |-> FALSE]
  ELSE IF thisKind = "undefined"
  THEN [object |-> obj, global |-> global, returned |-> NullSlides,
        threw |-> TRUE]
  ELSE IF newLanguage = BareEntry
  THEN [object |-> obj,
        global |-> [global EXCEPT !.currentLanguage = newLanguage],
        returned |-> NullSlides, threw |-> TRUE]
  ELSE [object |-> obj,
        global |-> [currentLanguage |-> newLanguage, slides |-> newLanguage],
        returned |-> SlidesResult(newLanguage), threw |-> FALSE]

\* The language selector's change handler of the README's multi-language
\* example, on the lib: the provider call, the two assignments, then
\* storyMap.recreateMapElements() when the map exists.  StoryMap defines no
\* recreateMapElements, so that call throws a TypeError.  The provider's
\* switchLanguage tests the catalog entry, assigns its currentLanguage and
\* then reads the entry's storymap.slides, which throws on an entry without
\* storymap.
languageSelectorChange(s, newLanguage) ==
  IF newLanguage = BareEntry
  THEN Throw(Accept([s EXCEPT !.currentLanguage = newLanguage]))
  ELSE IF InCatalog(s.texts, newLanguage)
  THEN LET s1 == ReplaceStory(
                   Accept([s EXCEPT !.currentLanguage = newLanguage]),
                   newLanguage)
           s2 == [s1 EXCEPT !.currentSlideIndex =
                    TargetSlideIndex(s.currentSlideIndex, Len(newLanguage))]
       IN IF HasMap(s2) THEN Throw(s2) ELSE updateSlide(s2, "none")
  ELSE s

\* ------------------------------------------------------------------ timers
\* The exit timer's callback: content swap, then the entrance timer.  In
\* the script the swap reads slide.text.headline and throws without it,
\* before the entrance timer is set.
exitTimer(s) ==
  LET t == Head(s.timers)
      rest == Tail(s.timers)
  IN IF ~t.ok THEN Throw(Accept([s EXCEPT !.timers = rest]))
     ELSE [s EXCEPT !.accepted = TRUE, !.shown = [idx |-> t.idx, stale |-> t.stale],
                    !.timers = Append(rest, [t EXCEPT !.phase = "entrance"])]

\* The entrance timer's callback.
entranceTimer(s) ==
  [s EXCEPT !.accepted = TRUE, !.timers = Tail(@), !.isAnimating = FALSE]

\* ---------------------------------------------------------------- map load
\* The map's 'load' handler: the lib also runs updateSlide().
mapLoadHandler(s) ==
  IF ~s.loadHandler THEN Accept(s)
  ELSE LET s1 == createAllMarkers(createAllLines(Accept(s)))
       IN IF s.impl = "lib" THEN updateSlide(s1, "none") ELSE s1

\* ------------------------------------------------------------ construction
Blank(i, tx, story) ==
  [impl |-> i, texts |-> tx, storyData |-> story, currentLanguage |-> story,
   currentSlideIndex |-> 0, isAnimating |-> FALSE, timers |-> <<>>,
   mapPhase |-> "created", loadHandler |-> FALSE, listeners |-> TRUE,
   langSelector |-> FALSE, sources |-> FALSE, inactive |-> EmptyBag,
   active |-> <<>>, lines |-> <<>>, lineLayers |-> {}, activeLines |-> {},
   prevDisabled |-> FALSE, nextDisabled |-> FALSE,
   restartDisabled |-> FALSE, progress |-> NoProgress, shown |-> NoContent,
   moves |-> <<>>, threw |-> FALSE, updated |-> FALSE, op |-> "init",
   themes |-> {"default"}, currentTheme |-> "default", themeStyles |-> {},
   brokenThemes |-> {}, accepted |-> TRUE]

\* StoryMap.initialize after the data has loaded: initializeMap throws
\* without a slide with a valid location (the map stays null and
\* setupEventListeners is not reached), and initialize catches and logs
\* the error; otherwise the 'load' handler and the listeners are
\* registered.  The first updateSlide waits for 'load'.
libInitialize(tx, story) ==
  IF FirstValidIndex(story) = -1
  THEN [Blank("lib", tx, story) EXCEPT !.mapPhase = "none",
                                       !.listeners = FALSE]
  ELSE [Blank("lib", tx, story) EXCEPT !.loadHandler = TRUE]

\* The script's fetch callback: initializeMap (the 'load' handler only with
\* a valid slide), updateSlide(), then initializeLanguageSelector.
scriptInitialize(tx, story) ==
  LET s0 == [Blank("script", tx, story) EXCEPT
               !.loadHandler = (FirstValidIndex(story) # -1)]
      s1 == scriptUpdateSlide(s0, "none")
  IN IF s1.threw THEN s1 ELSE [s1 EXCEPT !.langSelector = TRUE]

Construct(i, tx, story) ==
  IF i = "lib" THEN libInitialize(tx, story) ELSE scriptInitialize(tx, story)

\* The variables hold the fields of the constructed state t.
FieldsStartAs(t) ==
  /\ impl = t.impl /\ texts = t.texts /\ storyData = t.storyData
  /\ currentLanguage = t.currentLanguage
  /\ currentSlideIndex = t.currentSlideIndex
  /\ isAnimating = t.isAnimating /\ timers = t.timers
  /\ mapPhase = t.mapPhase /\ loadHandler = t.loadHandler
  /\ listeners = t.listeners /\ langSelector = t.langSelector
  /\ sources = t.sources /\ inactive = t.inactive /\ active = t.active
  /\ lines = t.lines /\ lineLayers = t.lineLayers
  /\ activeLines = t.activeLines
  /\ prevDisabled = t.prevDisabled /\ nextDisabled = t.nextDisabled
  /\ restartDisabled = t.restartDisabled /\ progress = t.progress
  /\ shown = t.shown /\ moves = t.moves
  /\ threw = t.threw /\ updated = t.updated /\ op = t.op
  /\ themes = t.themes /\ currentTheme = t.currentTheme
  /\ themeStyles = t.themeStyles /\ brokenThemes = t.brokenThemes

\* No second program runs beside the first.
NoTwin == [impl |-> "none"]

StartsAs(t) == FieldsStartAs(t) /\ twin = NoTwin /\ clickHandlers = 0

InitOver(tx) ==
  \E i \in {"lib", "script"} : \E story \in StoriesOver(tx) :
    \E t \in {Construct(i, tx, story)} : StartsAs(t)

\* Slides as the data model has them: every slide has its text.
Init == InitOver({TRUE})

\* Slides whose text object may be missing.
InitAnyText == InitOver(BOOLEAN)

\* ----------------------------------------------------------------- actions
\* A click on a disabled button dispatches no event.
prevBtnClick(s) == IF s.prevDisabled THEN s ELSE navigatePrevious(s)

nextBtnClick(s) == IF s.nextDisabled THEN s ELSE navigateNext(s)

restartBtnClick(s) == IF s.restartDisabled THEN s ELSE restart(s)

ClickPrev ==
  /\ listeners
  /\ Becomes(prevBtnClick(Begin(State, "prev")))

ClickNext ==
  /\ listeners
  /\ Becomes(nextBtnClick(Begin(State, "next")))

ClickRestart ==
  /\ listeners
  /\ Becomes(restartBtnClick(Begin(State, "restart")))

KeyArrowLeft ==
  /\ listeners
  /\ Becomes(keyArrowLeft(Begin(State, "ArrowLeft")))

KeyArrowRight ==
  /\ listeners
  /\ Becomes(keyArrowRight(Begin(State, "ArrowRight")))

\* The lib's public previous() and next().
ApiPrevious ==
  /\ impl = "lib"
  /\ Becomes(navigatePrevious(Begin(State, "prev")))

ApiNext ==
  /\ impl = "lib"
  /\ Becomes(navigateNext(Begin(State, "next")))

\* goToSlide(i) / navigateToSlide(i) with an integer i, also out of range.
GoToSlide ==
  \E i \in -1..Len(storyData) :
    Becomes(navigateToSlide(Begin(State, "goToSlide"), i))

\* A click on a feature of one of the two marker layers.
MarkerClick ==
  /\ sources
  /\ \E i \in BagToSet(inactive) \cup SeqToSet(active) :
       Becomes(markerClick(Begin(State, "markerClick"), i))

\* The script's language selector.
SwitchLanguage ==
  /\ impl = "script" /\ langSelector
  /\ \E new \in Selectable(texts, storyData) \cup {NoLanguage} :
       Becomes(switchLanguage(Begin(State, "switchLanguage"), new))

\* The README's language selector wiring on the lib.
LanguageSelectorChange ==
  /\ impl = "lib"
  /\ \E new \in Selectable(texts, storyData) \cup {NoLanguage} :
       Becomes(languageSelectorChange(Begin(State, "switchLanguage"), new))

MapLoad ==
  /\ mapPhase = "created"
  /\ Becomes(mapLoadHandler(
               [Begin(State, "load") EXCEPT !.mapPhase = "loaded"]))

ExitTimer ==
  /\ timers # <<>> /\ Head(timers).phase = "exit"
  /\ Becomes(exitTimer(Begin(State, "exitTimer")))

EntranceTimer ==
  /\ timers # <<>> /\ Head(timers).phase = "entrance"
  /\ Becomes(entranceTimer(Begin(State, "entranceTimer")))

Next ==
  \/ ClickPrev \/ ClickNext \/ ClickRestart
  \/ KeyArrowLeft \/ KeyArrowRight
  \/ ApiPrevious \/ ApiNext
  \/ GoToSlide \/ MarkerClick
  \/ SwitchLanguage
  \/ MapLoad
  \/ ExitTimer \/ EntranceTimer

NextReadme == Next \/ LanguageSelectorChange

\* Animated navigation only.
NextAnimated ==
  \/ ClickPrev \/ ClickNext
  \/ MapLoad
  \/ ExitTimer \/ EntranceTimer

\* The programs as shipped, on well-formed slides.
Spec == Init /\ [][Next]_vars

\* The same with the README's language selector wiring added to the lib.
SpecReadme == Init /\ [][NextReadme]_vars

\* Animated navigation over slides whose text object may be missing.  A
\* pending setTimeout callback is eventually run by the event loop.
SpecAnyText ==
  /\ InitAnyText /\ [][NextAnimated]_vars
  /\ WF_vars(ExitTimer) /\ WF_vars(EntranceTimer)

\* ------------------------------------------------- class beside the script
\* The StoryMap class (the variables) and the standalone script (twin) on
\* the same slide data, receiving the same events: each event runs the
\* handler of either program where that program has it registered.
InitTwin ==
  \E story \in StoriesOver({TRUE}) :
    /\ FieldsStartAs(Construct("lib", {TRUE}, story))
    /\ twin = [Construct("script", {TRUE}, story) EXCEPT !.accepted = FALSE]
    /\ clickHandlers = 0

\* The program s after the event: the handler's outcome where the event
\* reaches a handler, and nothing but the event's name otherwise.
After(s, name, registered, outcome) ==
  [(IF registered THEN outcome ELSE Begin(s, name)) EXCEPT
     !.accepted = FALSE]

TwinBecomes(x, y) ==
  FieldsBecome(x) /\ twin' = y /\ clickHandlers' = clickHandlers

TwinClickPrev ==
  /\ listeners \/ twin.listeners
  /\ TwinBecomes(
       After(State, "prev", listeners, prevBtnClick(Begin(State, "prev"))),
       After(twin, "prev", twin.listeners,
             prevBtnClick(Begin(twin, "prev"))))

TwinClickNext ==
  /\ listeners \/ twin.listeners
  /\ TwinBecomes(
       After(State, "next", listeners, nextBtnClick(Begin(State, "next"))),
       After(twin, "next", twin.listeners,
             nextBtnClick(Begin(twin, "next"))))

TwinClickRestart ==
  /\ listeners \/ twin.listeners
  /\ TwinBecomes(
       After(State, "restart", listeners,
             restartBtnClick(Begin(State, "restart"))),
       After(twin, "restart", twin.listeners,
             restartBtnClick(Begin(twin, "restart"))))

TwinKeyArrowLeft ==
  /\ listeners \/ twin.listeners
  /\ TwinBecomes(
       After(State, "ArrowLeft", listeners,
             keyArrowLeft(Begin(State, "ArrowLeft"))),
       After(twin, "ArrowLeft", twin.listeners,
             keyArrowLeft(Begin(twin, "ArrowLeft"))))

TwinKeyArrowRight ==
  /\ listeners \/ twin.listeners
  /\ TwinBecomes(
       After(State, "ArrowRight", listeners,
             keyArrowRight(Begin(State, "ArrowRight"))),
       After(twin, "ArrowRight", twin.listeners,
             keyArrowRight(Begin(twin, "ArrowRight"))))

\* The slides that have a marker on the map of program s.
ClickableMarkers(s) ==
  IF s.sources THEN BagToSet(s.inactive) \cup SeqToSet(s.active) ELSE {}

TwinMarkerClick ==
  \E i \in ClickableMarkers(State) \cup ClickableMarkers(twin) :
    TwinBecomes(
      After(State, "markerClick", i \in ClickableMarkers(State),
            markerClick(Begin(State, "markerClick"), i)),
      After(twin, "markerClick", i \in ClickableMarkers(twin),
            markerClick(Begin(twin, "markerClick"), i)))

TwinMapLoad ==
  /\ mapPhase = "created" \/ twin.mapPhase = "created"
  /\ TwinBecomes(
       After(State, "load", mapPhase = "created",
             mapLoadHandler(
               [Begin(State, "load") EXCEPT !.mapPhase = "loaded"])),
       After(twin, "load", twin.mapPhase = "created",
             mapLoadHandler(
               [Begin(twin, "load") EXCEPT !.mapPhase = "loaded"])))

\* The head of the timer queue of program s is a callback of the phase.
TimerDue(s, phase) == s.timers # <<>> /\ Head(s.timers).phase = phase

TwinExitTimer ==
  /\ TimerDue(State, "exit") \/ TimerDue(twin, "exit")
  /\ TwinBecomes(
       After(State, "exitTimer", TimerDue(State, "exit"),
             exitTimer(Begin(State, "exitTimer"))),
       After(twin, "exitTimer", TimerDue(twin, "exit"),
             exitTimer(Begin(twin, "exitTimer"))))

TwinEntranceTimer ==
  /\ TimerDue(State, "entrance") \/ TimerDue(twin, "entrance")
  /\ TwinBecomes(
       After(State, "entranceTimer", TimerDue(State, "entrance"),
             entranceTimer(Begin(State, "entranceTimer"))),
       After(twin, "entranceTimer", TimerDue(twin, "entrance"),
             entranceTimer(Begin(twin, "entranceTimer"))))

NextTwin ==
  \/ TwinClickPrev \/ TwinClickNext \/ TwinClickRestart
  \/ TwinKeyArrowLeft \/ TwinKeyArrowRight
  \/ TwinMarkerClick
  \/ TwinMapLoad
  \/ TwinExitTimer \/ TwinEntranceTimer

SpecTwin == InitTwin /\ [][NextTwin]_vars

\* The same where the map's load event comes before the first user event.
NextTwinLoaded ==
  \/ TwinMapLoad
  \/ mapPhase = "loaded" /\ twin.mapPhase = "loaded" /\ NextTwin

SpecTwinLoaded == InitTwin /\ [][NextTwinLoaded]_vars

\* ---------------------------------------------------- click registration
\* The script with its marker click handlers counted.  createInactiveMarkers
\* and createActiveMarker each end with map.on("click", layer, handler), and
\* clearMapElements removes layers and sources but no handler: every
\* successful createAllMarkers adds one handler to either layer.
MaxHandlers == 3

InitClicks ==
  \E story \in StoriesOver({TRUE}) :
    StartsAs(Construct("script", {TRUE}, story))

\* The outcome t of a handler with the registrations it made.
ClicksBecome(t, registered) ==
  /\ t.accepted
  /\ FieldsBecome(t) /\ twin' = twin
  /\ clickHandlers' = IF registered THEN clickHandlers + 1 ELSE clickHandlers

ClicksMapLoad ==
  /\ mapPhase = "created"
  /\ \E t \in {mapLoadHandler(
                  [Begin(State, "load") EXCEPT !.mapPhase = "loaded"])} :
       ClicksBecome(t, t.sources)

ClicksSwitchLanguage ==
  /\ langSelector /\ clickHandlers < MaxHandlers
  /\ \E new \in Selectable(texts, storyData) :
       \E t \in {switchLanguage(Begin(State, "switchLanguage"), new)} :
         ClicksBecome(t, t.sources)

\* The map fires the click at the first n handlers of the layer in turn,
\* each with the clicked feature; an exception leaves the dispatch.
RECURSIVE dispatchClick(_, _, _)
dispatchClick(s, clickedSlideIndex, n) ==
  IF n = 0 \/ s.threw THEN s
  ELSE dispatchClick(markerClick(s, clickedSlideIndex), clickedSlideIndex,
                     n - 1)

ClicksMarkerClick ==
  /\ sources
  /\ \E i \in BagToSet(inactive) \cup SeqToSet(active) :
       \E t \in {dispatchClick(Begin(State, "markerClick"), i,
                                clickHandlers)} :
         ClicksBecome(t, FALSE)

NextClicks ==
  \/ ClicksMapLoad
  \/ ClicksSwitchLanguage
  \/ ClicksMarkerClick
  \/ ClickNext
  \/ ExitTimer \/ EntranceTimer

SpecClicks == InitClicks /\ [][NextClicks]_vars

\* ----------------------------------------------------------- data loading
\* storyData before any assignment (null), and a loaded value that is an
\* object but no array.
NullData == <<[loc |-> "null", text |-> FALSE]>>

NotArray == <<[loc |-> "object", text |-> FALSE]>>

\* What fetch(jsonUrl) yields: a rejected fetch, or a response with its
\* status and body.  A JSON body is {storymap: {slides}}, {slides}, the
\* slides themselves, a multilingual catalog whose default language has
\* {storymap: {slides}}, a catalog without an entry for the default
\* language, or an object with none of these; slides is an array of slides
\* or a truthy value that is no array.
SlideValues == StoriesOver({TRUE}) \cup {NotArray}

JsonBodies ==
  {[kind |-> k, slides |-> v] :
     k \in {"storymap", "slides", "catalog"}, v \in SlideValues}
  \cup {[kind |-> "array", slides |-> v] : v \in StoriesOver({TRUE})}
  \cup {[kind |-> k, slides |-> NotArray] :
          k \in {"object", "catalog without entry", "unparsable"}}

Responses ==
  {[status |-> st, json |-> b] : st \in {"ok", "http error"}, b \in JsonBodies}
  \cup {[status |-> "network error",
          json |-> [kind |-> "unparsable", slides |-> NotArray]]}

\* The outcome of a loader: an exception, or the value it returns.
Failure == [threw |-> TRUE, data |-> NullData]

Returned(v) == [threw |-> FALSE, data |-> v]

\* response.json() rejects; fetch rejects.
Unreadable(response) ==
  response.status = "network error" \/ response.json.kind = "unparsable"

\* StoryMap.loadStoryData with jsonUrl: response.ok is not tested;
\* data.storymap?.slides || data.slides || data.
defaultLoader(response) ==
  IF Unreadable(response) THEN Failure
  ELSE IF response.json.kind \in {"storymap", "slides", "array"}
       THEN Returned(response.json.slides)
  ELSE Returned(NotArray)

\* DataProviders.simple.
simple(response) ==
  IF response.status # "ok" \/ Unreadable(response) THEN Failure
  ELSE IF response.json.kind \in {"storymap", "slides", "array"}
       THEN Returned(response.json.slides)
  ELSE Failure

\* MultilingualDataProvider.loadData.
loadData(response) ==
  IF response.status # "ok" \/ Unreadable(response) THEN Failure
  ELSE IF response.json.kind = "catalog" THEN Returned(response.json.slides)
  ELSE Failure

Loaders == {"default", "simple", "provider"}

loadStoryData(loader, response) ==
  IF loader = "default" THEN defaultLoader(response)
  ELSE IF loader = "simple" THEN simple(response)
  ELSE loadData(response)

\* StoryMap.initialize: loadStoryData, initializeMap, setupEventListeners
\* inside try/catch; every error is caught and logged.  On a value that is
\* no array, storyData.find is not a function.
initialize(s, loader, response) ==
  LET r == loadStoryData(loader, response)
  IN IF r.threw THEN Accept(s)
     ELSE IF r.data = NotArray THEN Accept([s EXCEPT !.storyData = NotArray])
     ELSE libInitialize(s.texts, r.data)

\* The StoryMap as the constructor leaves it, initialize pending.
InitLoad ==
  StartsAs([Blank("lib", {TRUE}, NullData) EXCEPT
              !.mapPhase = "none", !.listeners = FALSE, !.op = "construct"])

Initialize ==
  /\ op = "construct"
  /\ \E loader \in Loaders : \E response \in Responses :
       Becomes(initialize(Begin(State, "init"), loader, response))

\* The public next() on a StoryMap whose storyData is an array.
ApiNextLoaded ==
  /\ storyData \notin {NullData, NotArray}
  /\ ApiNext

\* The public next() while storyData is null: storyData.length throws.
ApiNextUnloaded ==
  /\ impl = "lib" /\ storyData = NullData
  /\ Becomes(Throw(Accept(Begin(State, "next"))))

\* The public restart() while storyData is null: currentSlideIndex = 0,
\* then storyData.find throws.
ApiRestartUnloaded ==
  /\ impl = "lib" /\ storyData = NullData /\ ~isAnimating
  /\ Becomes(Throw(Accept(
       [Begin(State, "restart") EXCEPT !.currentSlideIndex = 0])))

\* goToSlide(i) while storyData is null: a negative i fails the first test
\* of the guard, for any other i the guard reads storyData.length and
\* throws.
GoToSlideUnloaded ==
  /\ impl = "lib" /\ storyData = NullData
  /\ \E i \in -1..MaxSlides :
       Becomes(IF i >= 0 THEN Throw(Accept(Begin(State, "goToSlide")))
               ELSE Begin(State, "goToSlide"))

NextLoad ==
  \/ Initialize
  \/ MapLoad
  \/ ClickNext
  \/ ApiNextLoaded
  \/ ApiNextUnloaded
  \/ ApiRestartUnloaded
  \/ GoToSlideUnloaded

SpecLoad == InitLoad /\ [][NextLoad]_vars

\* ------------------------------------------------------------ path build
\* The two programs on stories over every kind of location, up to the
\* map's load event and the navigation that follows it.
InitLines ==
  \E i \in {"lib", "script"} : \E story \in LineStories :
    \E t \in {Construct(i, {TRUE}, story)} : StartsAs(t)

NextLines ==
  \/ MapLoad
  \/ ClickNext
  \/ ClickPrev
  \/ GoToSlide

SpecLines == InitLines /\ [][NextLines]_vars

\* ----------------------------------------------------------------- themes
\* The ThemeBuilder, with a theme abstracted to its name and to whether it
\* has every section generateCSS reads (colors, typography, spacing, ...).
BuiltInThemes == {"dark", "blue", "green", "purple"}

ThemeNames == {"default", "my-brand"} \cup BuiltInThemes

\* The names the page creates and imports themes under: the protected
\* name, a name of its own and the name of a preset.
CustomThemeNames == {"default", "my-brand", "dark"}

\* The overrides of createTheme: some values of some sections, a section
\* set to null, or every section in full.
OverrideKinds == {"partial", "nulls a section", "complete"}

\* The text given to importThemeJSON: no JSON or no JSON object, a theme
\* with every section, a theme object that lacks a section.
JsonKinds == {"not an object", "complete theme", "incomplete theme"}

\* applyTheme: throws on an unknown name; otherwise removes every style
\* element of a theme, generates the theme's CSS (which throws on a
\* missing section), appends the style and sets currentTheme.
applyTheme(s, themeName) ==
  IF s.threw THEN s
  ELSE IF themeName \notin s.themes THEN Throw(s)
  ELSE IF themeName \in s.brokenThemes
  THEN Throw([s EXCEPT !.themeStyles = {}])
  ELSE [s EXCEPT !.themeStyles = {themeName}, !.currentTheme = themeName]

\* themes.set(name, theme).
SetTheme(s, name, broken) ==
  [s EXCEPT !.themes = @ \cup {name},
            !.brokenThemes = IF broken THEN @ \cup {name} ELSE @ \ {name}]

createTheme(s, name, baseTheme, overrides) ==
  IF s.threw THEN s
  ELSE IF baseTheme \notin s.themes THEN Throw(s)
  ELSE SetTheme(s, name,
         IF overrides = "nulls a section" THEN TRUE
         ELSE IF overrides = "complete" THEN FALSE
         ELSE baseTheme \in s.brokenThemes)

\* importThemeJSON: JSON.parse, theme.name = name, themes.set; a text that
\* does not parse, or parses to null or a primitive, throws.
importThemeJSON(s, themeJson, name) ==
  IF s.threw THEN s
  ELSE IF themeJson = "not an object" THEN Throw(s)
  ELSE SetTheme(s, name, themeJson = "incomplete theme")

deleteTheme(s, themeName) ==
  IF s.threw THEN s
  ELSE IF themeName = "default" THEN Throw(s)
  ELSE LET s1 == IF s.currentTheme = themeName
                 THEN applyTheme(s, "default") ELSE s
       IN IF s1.threw THEN s1
          ELSE [s1 EXCEPT !.themes = @ \ {themeName},
                          !.brokenThemes = @ \ {themeName}]

createPresetThemes(s) ==
  createTheme(createTheme(createTheme(createTheme(s,
    "dark", "default", "partial"), "blue", "default", "partial"),
    "green", "default", "partial"), "purple", "default", "partial")

\* reset: themes.clear(), createDefaultTheme(), applyTheme('default').
resetThemes(s) ==
  applyTheme([s EXCEPT !.themes = {"default"}, !.brokenThemes = {}],
             "default")

\* The page after the theme-builder script has run:
\* const themeBuilder = new ThemeBuilder(), which creates the default
\* theme only; the StoryMap is constructed and its load is pending.
InitTheme ==
  StartsAs([Blank("lib", {TRUE}, NullData) EXCEPT
              !.mapPhase = "none", !.listeners = FALSE,
              !.op = "new ThemeBuilder"])

ApplyTheme ==
  \E name \in ThemeNames :
    Becomes(applyTheme(Accept(Begin(State, "applyTheme")), name))

CreateTheme ==
  \E name \in CustomThemeNames : \E base \in ThemeNames :
    \E overrides \in OverrideKinds :
      Becomes(createTheme(Accept(Begin(State, "createTheme")), name, base,
                          overrides))

ImportThemeJSON ==
  \E name \in CustomThemeNames : \E themeJson \in JsonKinds :
    Becomes(importThemeJSON(Accept(Begin(State, "importThemeJSON")),
                            themeJson, name))

DeleteTheme ==
  \E name \in ThemeNames :
    Becomes(deleteTheme(Accept(Begin(State, "deleteTheme")), name))

CreatePresetThemes ==
  Becomes(createPresetThemes(Accept(Begin(State, "createPresetThemes"))))

ResetThemes ==
  Becomes(resetThemes(Accept(Begin(State, "reset"))))

NextTheme ==
  \/ ApplyTheme
  \/ CreateTheme
  \/ ImportThemeJSON
  \/ DeleteTheme
  \/ CreatePresetThemes
  \/ ResetThemes

SpecTheme == InitTheme /\ [][NextTheme]_vars

\* ------------------------------------------------------ location validity
\* isValidLocation on the values lat and lon can have in a slide's JSON or
\* in a slide object built by the page.
CoordKinds ==
  {"absent", "null", "number", "zero", "numeric string", "prefixed string",
   "non-numeric string", "empty string", "NaN", "Infinity", "-Infinity",
   "Infinity string"}

\* slide.location absent or null.
NoLocation == [lat |-> "no location", lon |-> "no location"]

RawLocations == [lat : CoordKinds, lon : CoordKinds] \cup {NoLocation}

\* parseFloat(x), as the kind of its result: the longest numeric prefix
\* of the string form of x ("Infinity" included), NaN without one.
parseFloat(x) ==
  IF x \in {"number", "zero", "numeric string", "prefixed string"}
  THEN "finite"
  ELSE IF x \in {"Infinity", "-Infinity", "Infinity string"} THEN "infinite"
  ELSE "NaN"

isNaN(v) == v = "NaN"

\* isValidLocation(location) on a raw location.
isValidLatLon(location) ==
  /\ location # NoLocation
  /\ location.lat # "null" /\ location.lat # "absent"
  /\ ~isNaN(parseFloat(location.lat))
  /\ location.lon # "null" /\ location.lon # "absent"
  /\ ~isNaN(parseFloat(location.lon))

\* typeof x === 'number'.
IsNumber(x) == x \in {"number", "zero", "NaN", "Infinity", "-Infinity"}

\* DataValidators.isValidLocation on a raw location: lat and lon must be
\* of type number and not NaN.
validatorIsValidLocation(location) ==
  /\ location # NoLocation
  /\ IsNumber(location.lat) /\ IsNumber(location.lon)
  /\ location.lat # "NaN" /\ location.lon # "NaN"

\* A slide as loaded, with its raw location.
InitLocation ==
  \E location \in RawLocations :
    StartsAs([Blank("lib", {TRUE},
                    <<[loc |-> [lat |-> location.lat, lon |-> location.lon,
                                valid |-> "unchecked",
                                filtered |-> "unchecked"],
                       text |-> TRUE]>>)
                EXCEPT !.mapPhase = "none", !.listeners = FALSE,
                       !.op = "slide"])

\* The location of the slide, without the recorded result.
RawLocation(slide) == [lat |-> slide.loc.lat, lon |-> slide.loc.lon]

\* The engine reads the slide's location through isValidLocation; the
\* result is recorded beside the location.
ValidateLocation ==
  /\ storyData[1].loc.valid = "unchecked"
  /\ Becomes(Accept(
       [Begin(State, "isValidLocation") EXCEPT
          !.storyData[1].loc.valid =
             IF isValidLatLon(RawLocation(storyData[1]))
             THEN "valid" ELSE "invalid"]))

\* DataTransformers.filterSlides(slides, {validLocationsOnly: true}) on
\* the slide: kept or dropped by DataValidators.isValidLocation.
FilterSlides ==
  /\ storyData[1].loc.filtered = "unchecked"
  /\ Becomes(Accept(
       [Begin(State, "filterSlides") EXCEPT
          !.storyData[1].loc.filtered =
             IF validatorIsValidLocation(RawLocation(storyData[1]))
             THEN "kept" ELSE "dropped"]))

NextLocation == ValidateLocation \/ FilterSlides

SpecLocation == InitLocation /\ [][NextLocation]_vars

\* ---------------------------------------------------------------- catalog
\* The language selectors over a catalog that also has an entry without a
\* storymap object.
SwitchLanguageAny ==
  /\ impl = "script" /\ langSelector
  /\ \E new \in Selectable(texts, storyData) \cup {NoLanguage, BareEntry} :
       Becomes(switchLanguage(Begin(State, "switchLanguage"), new))

LanguageSelectorChangeAny ==
  /\ impl = "lib"
  /\ \E new \in Selectable(texts, storyData) \cup {NoLanguage, BareEntry} :
       Becomes(languageSelectorChange(Begin(State, "switchLanguage"), new))

NextCatalog ==
  \/ ClickNext
  \/ MapLoad
  \/ SwitchLanguageAny
  \/ LanguageSelectorChangeAny

SpecCatalog == Init /\ [][NextCatalog]_vars

\* ---------------------------------------------------------- slide position
\* The index computation of a language switch on its own, over sequences of
\* up to MaxLength slides.  The computation reads the sequences only
\* through their lengths, so every slide is the same slide.
UniformStory(n) == [k \in 1..n |-> [loc |-> "none", text |-> TRUE]]

InitPosition ==
  \E i \in {"lib", "script"} : \E n \in 1..MaxLength : \E idx \in 0..(n - 1) :
    StartsAs([Blank(i, {TRUE}, UniformStory(n)) EXCEPT
                !.currentSlideIndex = idx, !.mapPhase = "none",
                !.listeners = FALSE])

\* newSlideIndex of the script's switchLanguage for a language of m slides.
ScriptPosition ==
  /\ impl = "script"
  /\ \E m \in 1..MaxLength :
       Becomes(Accept([Begin(State, "position") EXCEPT
                 !.storyData = UniformStory(m),
                 !.currentLanguage = UniformStory(m),
                 !.currentSlideIndex =
                    RatioIndex(currentSlideIndex, Len(storyData), m)]))

\* targetSlideIndex of the provider's switchLanguageWithPosition, called
\* with the StoryMap's currentSlideIndex for a language of m slides.
ProviderPosition ==
  /\ impl = "lib"
  /\ \E m \in 1..MaxLength :
       Becomes(Accept([Begin(State, "position") EXCEPT
                 !.storyData = UniformStory(m),
                 !.currentLanguage = UniformStory(m),
                 !.currentSlideIndex =
                    TargetSlideIndex(currentSlideIndex, m)]))

NextPosition == ScriptPosition \/ ProviderPosition

SpecPosition == InitPosition /\ [][NextPosition]_vars

\* ------------------------------------------------- slide position, doubles
\* The script's index computation in IEEE 754 double arithmetic, for
\* sequences of up to MaxDoubleLength slides.
MaxDoubleLength == 23

RECURSIVE Pow2(_)
Pow2(k) == IF k = 0 THEN 1 ELSE 2 * Pow2(k - 1)

\* 2^e modulo n.
RECURSIVE Pow2Mod(_, _)
Pow2Mod(e, n) == IF e = 0 THEN 1 % n ELSE (2 * Pow2Mod(e - 1, n)) % n

\* The least k with 2^k * i >= n: the quotient i / n, 0 < i < n, has the
\* binary exponent -k and its 53-bit significand is (i * 2^(52+k)) / n
\* rounded to the nearest integer.
RECURSIVE QuotientShift(_, _, _)
QuotientShift(i, n, k) ==
  IF Pow2(k) * i >= n THEN k ELSE QuotientShift(i, n, k + 1)

\* The binary exponent of the integer a >= 1.
RECURSIVE Exponent(_, _)
Exponent(a, e) == IF Pow2(e + 1) > a THEN e ELSE Exponent(a, e + 1)

\* n times the rounding error of the double currentSlideIndex / oldLength,
\* in units of 2^-(52+k): positive when the quotient was rounded down.
\* (A tie cannot occur for n < 2^53.)
QuotientError(i, n) ==
  LET rem == (i * Pow2Mod(52 + QuotientShift(i, n, 0), n)) % n
  IN IF 2 * rem < n THEN rem ELSE rem - n

\* Math.min(Math.floor(currentSlideIndex / oldLength * newLength),
\* newLength - 1) as the double arithmetic computes it.  The product of
\* the rounded quotient with newLength lies below the exact value
\* a = index * newLength / oldLength when the quotient was rounded down;
\* where a is an integer the product rounds back to a only if it is within
\* half the spacing of the doubles below a, and floors to a - 1 otherwise.
DoubleRatioIndex(index, oldLength, newLength) ==
  LET a == (index * newLength) \div oldLength
      b == (index * newLength) % oldLength
      eps == QuotientError(index, oldLength)
      k == QuotientShift(index, oldLength, 0)
      E == Exponent(a, 0)
      t == IF a = Pow2(E) THEN E + k - 2 ELSE E + k - 1
      withinHalfSpacing ==
        IF t >= 0 THEN eps * newLength <= oldLength * Pow2(t)
        ELSE eps * newLength * Pow2(0 - t) <= oldLength
      floor == IF index = 0 \/ a = 0 \/ b > 0 \/ eps <= 0 THEN a
               ELSE IF withinHalfSpacing THEN a ELSE a - 1
  IN Min(floor, newLength - 1)

InitDoublePosition ==
  \E n \in 1..MaxDoubleLength : \E idx \in 0..(n - 1) :
    StartsAs([Blank("script", {TRUE}, UniformStory(n)) EXCEPT
                !.currentSlideIndex = idx, !.mapPhase = "none",
                !.listeners = FALSE])

\* newSlideIndex of the script's switchLanguage for a language of m slides.
ScriptDoublePosition ==
  /\ impl = "script"
  /\ \E m \in 1..MaxDoubleLength :
       Becomes(Accept([Begin(State, "position") EXCEPT
                 !.storyData = UniformStory(m),
                 !.currentLanguage = UniformStory(m),
                 !.currentSlideIndex =
                    DoubleRatioIndex(currentSlideIndex, Len(storyData), m)]))

NextDoublePosition == ScriptDoublePosition

SpecDoublePosition == InitDoublePosition /\ [][NextDoublePosition]_vars

\* ------------------------------------------------------------------ claims
\* The requests that step to an adjacent slide, and all navigation requests
\* but restart.
StepOps == {"prev", "next", "ArrowLeft", "ArrowRight"}

NavigationOps == StepOps \cup {"goToSlide", "markerClick"}

CurrentSlide == SlideAt(storyData, currentSlideIndex)

CurrentValid == isValidLocation(CurrentSlide.loc)

\* C1: while a transition is in flight every prev, next, restart,
\* goToSlide, arrow-key and marker-click request leaves the whole state as
\* it is (index, marker sets, path highlights, pending timers: nothing is
\* queued), and at most one timer of an animation chain is ever pending,
\* and only while a transition is in flight.
C1_BusyRequestsAreNoOps ==
  /\ Len(timers) <= 1
  /\ timers # <<>> => isAnimating
  /\ isAnimating =>
       /\ prevBtnClick(State) = State
       /\ nextBtnClick(State) = State
       /\ restartBtnClick(State) = State
       /\ navigatePrevious(State) = State
       /\ navigateNext(State) = State
       /\ restart(State) = State
       /\ keyArrowLeft(State) = State
       /\ keyArrowRight(State) = State
       /\ \A i \in -1..Len(storyData) :
            /\ navigateToSlide(State, i) = State
            /\ markerClick(State, i) = State

\* A transition is in flight while the next button is enabled and a next
\* slide exists: a request made now would be accepted if not for the busy
\* flag.
C1_Witness ==
  /\ isAnimating /\ Len(timers) = 1 /\ op \in StepOps
  /\ listeners /\ ~nextDisabled
  /\ currentSlideIndex < Len(storyData) - 1

\* C2: a language change handled while a transition is in flight leaves
\* currentSlideIndex and the active slide sequence as they are and issues
\* no camera move.
C2_LanguageChangeWhileAnimating ==
  [][(isAnimating /\ op' = "switchLanguage")
       => /\ currentSlideIndex' = currentSlideIndex
          /\ storyData' = storyData
          /\ moves' = <<>>]_vars

\* C3: currentSlideIndex is an index of the current slide sequence, and
\* goToSlide(-1) and goToSlide(length) change nothing.
C3_IndexInRange ==
  /\ currentSlideIndex \in 0..(Len(storyData) - 1)
  /\ navigateToSlide(State, -1) = State
  /\ navigateToSlide(State, Len(storyData)) = State

\* The active marker set holds at most the current slide's marker, and
\* holds it exactly when the current slide has a valid location.
ActiveMarkerMatchesSlide ==
  /\ Len(active) <= 1
  /\ active # <<>> <=> CurrentValid
  /\ active # <<>> => active[1] = currentSlideIndex

\* C4, as stated: in every reachable state the active marker set matches
\* the current slide.
C4_Original == ActiveMarkerMatchesSlide

\* C4, amended: in every reachable state in which the marker layers exist
\* (the map's load handler or a language switch has created them) the
\* active marker set has at most one member, and it is non-empty if and
\* only if the slide at currentSlideIndex has a valid location; its member
\* is then currentSlideIndex.
C4_ActiveMarker == sources => ActiveMarkerMatchesSlide

\* A navigation has moved the active marker to the slide it landed on.
C4_Witness ==
  /\ sources /\ op \in NavigationOps
  /\ currentSlideIndex > 0 /\ active = <<currentSlideIndex>>

\* The two marker sets partition the slide indices with a valid location.
MarkersPartition ==
  /\ \A i \in ValidIndices(storyData) :
       CopiesIn(i, inactive) + (IF i \in SeqToSet(active) THEN 1 ELSE 0) = 1
  /\ BagToSet(inactive) \cup SeqToSet(active) \subseteq ValidIndices(storyData)
  /\ Len(active) <= 1

\* C5, as stated: in every reachable state each slide index with a valid
\* location is in exactly one of the two marker sets, once, and no other
\* index is in either.
C5_Original == MarkersPartition

\* C5, amended: in every reachable state in which the marker layers exist
\* each slide index with a valid location is in exactly one of the active
\* and inactive marker sets (never both, never neither, never twice), and
\* no index without a valid location is in either set.
C5_MarkerPartition == sources => MarkersPartition

\* A navigation has moved a marker out of the active set and another in.
C5_Witness ==
  /\ sources /\ op \in NavigationOps
  /\ active # <<>> /\ BagToSet(inactive) # {}
  /\ Len(moves) = 1

\* C6: once the map's load event has fired, a path segment is styled
\* active if and only if its target index (source index + 1) equals
\* currentSlideIndex.
C6_SegmentHighlight ==
  mapPhase = "loaded" =>
    activeLines = {i \in lineLayers : i + 1 = currentSlideIndex}

\* C7: after a completed slide update the previous and restart controls
\* are disabled exactly at index 0, the next control exactly at index
\* length - 1, and the progress text is (currentSlideIndex + 1)/length.
C7_ControlsAfterUpdate ==
  updated =>
    /\ prevDisabled <=> currentSlideIndex = 0
    /\ restartDisabled <=> currentSlideIndex = 0
    /\ nextDisabled <=> currentSlideIndex = Len(storyData) - 1
    /\ progress = [cur |-> currentSlideIndex + 1, total |-> Len(storyData)]

\* A language switch has completed its slide update on a middle slide.
C7_Witness ==
  /\ updated /\ op = "switchLanguage"
  /\ currentSlideIndex > 0 /\ currentSlideIndex < Len(storyData) - 1
  /\ ~prevDisabled /\ ~nextDisabled /\ ~restartDisabled

\* C8: in every reachable state an ArrowLeft key press has the outcome of
\* a click on the previous control and an ArrowRight key press that of a
\* click on the next control; both leave the state as it is at index 0 /
\* index length - 1 respectively and while a transition is in flight.
C8_KeysAsClicks ==
  listeners =>
    /\ keyArrowLeft(State) = prevBtnClick(State)
    /\ keyArrowRight(State) = nextBtnClick(State)
    /\ (currentSlideIndex = 0 \/ isAnimating) => keyArrowLeft(State) = State
    /\ (currentSlideIndex = Len(storyData) - 1 \/ isAnimating)
         => keyArrowRight(State) = State

\* An ArrowRight key press has been accepted and has started a transition
\* to a slide that is not the last; the next control is enabled.
C8_Witness ==
  /\ listeners /\ op = "ArrowRight" /\ isAnimating /\ updated
  /\ ~nextDisabled /\ currentSlideIndex < Len(storyData) - 1

\* An accepted request of one of the kinds ops has landed on a slide
\* without a valid location and issued no camera move.
NoMoveToInvalid(ops) ==
  (op \in ops /\ ~CurrentValid) => moves = <<>>

\* C9, as stated: no accepted navigation (prev, next, goToSlide, marker
\* click, restart) that lands on a slide without a valid location issues a
\* camera move.
C9_Original == NoMoveToInvalid(NavigationOps \cup {"restart"})

\* C9, amended: no accepted prev, next, goToSlide or marker-click
\* navigation that lands on a slide without a valid location issues a
\* camera move (restart flies to the first slide that has a valid location
\* even when slide 0 has none).
C9_NoCameraMove == NoMoveToInvalid(NavigationOps)

\* A next or prev request has landed on a slide without a valid location,
\* on a page that has a map.
C9_Witness ==
  /\ op \in StepOps /\ ~CurrentValid /\ mapPhase # "none"
  /\ currentSlideIndex \in 0..(Len(storyData) - 1) /\ moves = <<>>

\* C10: every accepted animated transition runs to completion: once
\* isAnimating is true it eventually returns to false, the pending timers
\* being run.
C10_TransitionsComplete == isAnimating ~> ~isAnimating

\* floor(oldIndex / oldLength * newLength) clamped to [0, newLength - 1].
ClampedFloorRatio(oldIndex, oldLength, newLength) ==
  Max(0, Min((oldIndex * newLength) \div oldLength, newLength - 1))

\* round(oldIndex / oldLength * newLength) clamped to [0, newLength - 1].
ClampedRoundRatio(oldIndex, oldLength, newLength) ==
  Max(0, Min((2 * oldIndex * newLength + oldLength) \div (2 * oldLength),
             newLength - 1))

\* C11: in the script's switchLanguage and in the provider's
\* switchLanguageWithPosition alike, the index after a language switch is
\* floor(oldIndex / oldLength * newLength) clamped to [0, newLength - 1]
\* (index 4 of 10 slides gives index 2 of 5).
C11_FloorRatioIndex ==
  [][currentSlideIndex' =
       ClampedFloorRatio(currentSlideIndex, Len(storyData),
                         Len(storyData'))]_vars

C13_UnavailableLanguageIsNoOp ==
  \A code \in {NoLanguage, BareEntry} :
    /\ (impl = "script" /\ langSelector)
         => switchLanguage(State, code) = State
    /\ impl = "lib" => languageSelectorChange(State, code) = State

\* The path segments on the map and in the lines array are those of the
\* current slide sequence, each once.
SegmentsOfStory ==
  /\ lineLayers = SegmentSources(storyData)
  /\ SeqToSet(lines) = {i + 1 : i \in SegmentSources(storyData)}
  /\ Len(lines) = Cardinality(SegmentSources(storyData))

\* C14: after a language switch that has run to its end the path segments
\* are exactly those of the new slide sequence, the marker sets partition
\* the valid-location indices of the new sequence with the new
\* currentSlideIndex as the only active member (if valid), and no segment
\* or marker of the replaced sequence remains.
C14_RebuiltAfterSwitch ==
  (op = "switchLanguage" /\ updated) =>
    /\ SegmentsOfStory
    /\ sources /\ MarkersPartition /\ ActiveMarkerMatchesSlide
    /\ currentSlideIndex \in 0..(Len(storyData) - 1)

\* A completed switch to a sequence that has a path segment and a valid
\* current slide other than the first.
C14_Witness ==
  /\ op = "switchLanguage" /\ updated
  /\ SegmentSources(storyData) # {} /\ active # <<>>
  /\ currentSlideIndex > 0 /\ BagToSet(inactive) # {}

\* C15: with the README's language-change wiring on the StoryMap, a switch
\* to an available language ends showing slide targetSlideIndex of the new
\* sequence with markers and path segments rebuilt from it; the handler
\* never stops with storyData replaced and markers, paths and content
\* still those of the replaced sequence.
C15_ReadmeSwitchCompletes ==
  (impl = "lib" /\ op = "switchLanguage"
     /\ HasLanguage(texts, currentLanguage)) =>
    /\ ~threw /\ updated
    /\ shown = [idx |-> currentSlideIndex, stale |-> FALSE]
    /\ mapPhase = "loaded" =>
         SegmentsOfStory /\ MarkersPartition /\ ActiveMarkerMatchesSlide

\* C16: if the initial data load fails (network error, unparsable or
\* malformed JSON, missing language entry) the failure reaches the hosting
\* page as an initialization failure and no slide is rendered; the core
\* does not catch it and stay a constructed but unusable object.
C16_LoadFailureSurfaces ==
  (op = "init" /\ storyData \in {NullData, NotArray}) =>
    threw /\ shown = NoContent

\* C17: a load whose response is an HTTP error or whose JSON has no slide
\* array ends in a loader failure: storyData is never set to a value that
\* is not an array of slides.
C17_StoryDataIsSlideArray ==
  storyData = NullData \/ storyData \in StoriesOver(texts)

\* C18: a story in which no slide, or only the first slide, has no valid
\* location still initializes (the controls are live) and is navigated
\* with prev, next and goToSlide without anything thrown; on a slide
\* without a valid location the active marker set is empty and no camera
\* move is issued.
C18_NoLocationIsNoError ==
  (op \in {"init"} \cup NavigationOps
     /\ ~isValidLocation(SlideAt(storyData, 0).loc)) =>
    /\ listeners /\ ~threw
    /\ ~CurrentValid => (active = <<>> /\ moves = <<>>)

\* transitionTo(newIndex, previousIndex): the marker update of a slide
\* update that makes newIndex current.
transitionTo(s, newIndex) ==
  updateMarkerColors([s EXCEPT !.currentSlideIndex = newIndex])

\* The marker sets after moving the active marker from the current index
\* to b and back.
RoundTrip(b) ==
  transitionTo(transitionTo(Begin(State, "transitionTo"), b),
               currentSlideIndex)

\* C19: for the current index a and any slide index b, moving the active
\* marker from a to b and then from b back to a restores the active and
\* the inactive marker set, compared as sets of slide indices, whether or
\* not a or b has a valid location.
C19_MarkerRoundTrip ==
  \A b \in 0..(Len(storyData) - 1) :
    /\ SeqToSet(RoundTrip(b).active) = SeqToSet(active)
    /\ BagToSet(RoundTrip(b).inactive) = BagToSet(inactive)
    /\ ~RoundTrip(b).threw

\* The markers exist, the current slide holds the active marker after a
\* navigation, and there are both a slide with a valid location to move
\* the marker to (which empties and refills the active set's member) and a
\* slide without one.
C19_Witness ==
  /\ sources /\ op \in NavigationOps /\ active = <<currentSlideIndex>>
  /\ \E b \in ValidIndices(storyData) :
       /\ b # currentSlideIndex
       /\ transitionTo(Begin(State, "transitionTo"), b).active = <<b>>
       /\ BagIn(currentSlideIndex,
                transitionTo(Begin(State, "transitionTo"), b).inactive)
  /\ \E c \in 0..(Len(storyData) - 1) : c \notin ValidIndices(storyData)

\* The adjacent pairs (i, i+1), by their source index i, whose slide i has
\* location.line strictly equal to true and whose two slides both have a
\* valid location.
LinePairs ==
  {i \in 0..(Len(storyData) - 2) :
     /\ lineIsTrue(SlideAt(storyData, i).loc)
     /\ isValidLocation(SlideAt(storyData, i).loc)
     /\ isValidLocation(SlideAt(storyData, i + 1).loc)}

\* C20: once the load handler has built the path segments there is
\* exactly one segment for each adjacent pair (i, i+1) whose slide i has
\* location.line === true and whose two slides have valid locations,
\* keyed by source index i with target i + 1, no segment for any other
\* pair, and at most one segment targets any slide index.
C20_OneSegmentPerLinePair ==
  (mapPhase = "loaded" /\ loadHandler) =>
    /\ lineLayers = LinePairs
    /\ \A i \in LinePairs :
         Cardinality({k \in 1..Len(lines) : lines[k] = i + 1}) = 1
    /\ \A k \in 1..Len(lines) : lines[k] - 1 \in LinePairs
    /\ \A t \in 0..Len(storyData) :
         Cardinality({k \in 1..Len(lines) : lines[k] = t}) <= 1

\* The segments are built for a story that has a line pair, a slide whose
\* line property is truthy but not true, and a slide with line === true
\* but no usable coordinates.
C20_Witness ==
  /\ mapPhase = "loaded" /\ loadHandler /\ op = "load"
  /\ lineLayers # {} /\ Len(lines) = Cardinality(lineLayers)
  /\ \E k \in 1..Len(storyData) : storyData[k].loc = "lineish"
  /\ \E k \in 1..Len(storyData) : storyData[k].loc = "unplaced line"

\* refreshHighlight(i): the style pass with i the current index.
refreshHighlight(s) == updateLineColors(s)

\* C21: two style passes in a row with the same current index leave every
\* segment with the style it had after the first pass.
C21_HighlightIdempotent ==
  refreshHighlight(refreshHighlight(Begin(State, "refreshHighlight")))
    = refreshHighlight(Begin(State, "refreshHighlight"))

\* Segments exist and the first style pass changes the style of one of
\* them (the segment to the current slide is not yet highlighted).
C21_Witness ==
  /\ lines # <<>>
  /\ refreshHighlight(Begin(State, "refreshHighlight")).activeLines
       # activeLines
  /\ currentSlideIndex \in SeqToSet(lines)

\* C28: the style pass changes segment styles only: the registered
\* segments (lines array and line layers), currentSlideIndex, isAnimating
\* and the two marker sets are as before the call.
C28_HighlightFrame ==
  refreshHighlight(Begin(State, "refreshHighlight"))
    = [Begin(State, "refreshHighlight") EXCEPT
         !.activeLines =
            refreshHighlight(Begin(State, "refreshHighlight")).activeLines]

\* Segments and markers exist, a transition is in flight, and the style
\* pass has highlighted the segment to the current slide.
C28_Witness ==
  /\ Len(lines) > 0 /\ sources /\ active # <<>> /\ isAnimating
  /\ activeLines = {currentSlideIndex - 1}
  /\ updated

\* C22: on the themeBuilder instance as exported, with no call made on it
\* before, applyTheme(name) succeeds for each of the built-in themes
\* 'dark', 'blue', 'green' and 'purple', and getCurrentTheme() then
\* returns that name.
C22_BuiltInThemesApply ==
  op = "new ThemeBuilder" =>
    \A name \in BuiltInThemes :
      /\ ~applyTheme(Begin(State, "applyTheme"), name).threw
      /\ applyTheme(Begin(State, "applyTheme"), name).currentTheme = name

\* C23: inside an accepted animated transition the camera move, the path
\* highlight refresh, the marker transition and the button and progress
\* update come after the content swap: while the exit animation is still
\* pending (the content of the new slide is not yet swapped in) the
\* progress display and the active marker are not yet those of the new
\* index and no camera move has been issued.
C23_UpdatesFollowContentSwap ==
  (op \in StepOps /\ isAnimating /\ timers # <<>>
     /\ Head(timers).phase = "exit"
     /\ Head(timers).idx = currentSlideIndex) =>
    /\ progress.cur # currentSlideIndex + 1
    /\ moves = <<>>
    /\ active # <<currentSlideIndex>>

\* C24: a click on an inactive marker with slide index i while no
\* animation is in flight navigates to i without animation: right after
\* the handler currentSlideIndex = i, i is the only active marker, the
\* previously active marker is in the inactive set, the content shown is
\* slide i and isAnimating is still false.  A click on the active marker,
\* or any marker click while animating, changes nothing.
C24_MarkerClickNavigates ==
  /\ [][op' = "markerClick" =>
         \E i \in BagToSet(inactive) :
           /\ ~isAnimating /\ ~isAnimating' /\ ~threw'
           /\ currentSlideIndex' = i
           /\ active' = <<i>>
           /\ \A j \in SeqToSet(active) : BagIn(j, inactive')
           /\ ~BagIn(i, inactive')
           /\ shown' = [idx |-> i, stale |-> FALSE]]_vars
  /\ [](sources =>
          \A i \in BagToSet(inactive) \cup SeqToSet(active) :
            (isAnimating \/ i \in SeqToSet(active))
              => markerClick(State, i) = State)

\* A marker click has moved the active marker from another slide's
\* marker, which is now inactive, and no transition is in flight.
C24_Witness ==
  /\ op = "markerClick" /\ ~isAnimating /\ updated
  /\ active = <<currentSlideIndex>> /\ BagToSet(inactive) # {}
  /\ shown.idx = currentSlideIndex /\ moves = <<currentSlideIndex>>

\* The slide indices that have a marker in one of the two sets of s.
MarkersOf(s) == BagToSet(s.inactive) \cup SeqToSet(s.active)

\* C25: activate(index), from any state: when index is in the inactive
\* set it is removed from it and becomes the sole member of the active
\* set, and no other marker is lost from the two sets; when index is not
\* in the inactive set both sets are left as they are.
C25_Activate ==
  \A index \in -1..Len(storyData) :
    LET r == moveMarkerToActive(Begin(State, "activate"), index)
    IN IF sources /\ BagIn(index, inactive)
       THEN /\ r.active = <<index>>
            /\ r.inactive = inactive (-) SetToBag({index})
            /\ MarkersOf(r) = MarkersOf(State)
       ELSE r.active = active /\ r.inactive = inactive

\* C26: deactivate(index), from any state: when index is the active
\* member it is removed from the active set and put back into the
\* inactive set; for any other index both sets are left as they are.
C26_Deactivate ==
  \A index \in -1..Len(storyData) :
    LET r == moveMarkerToInactive(Begin(State, "deactivate"), index)
    IN IF sources /\ active = <<index>>
       THEN /\ r.active = <<>>
            /\ r.inactive = inactive (+) SetToBag({index})
       ELSE r.active = active /\ r.inactive = inactive

\* C27: the marker move of a slide update is atomic for event handlers.
\* Handlers run to completion, so the points at which a marker click
\* handler, key handler, timer callback or language-change handler can run
\* are the states between handlers; at each of them, once the marker
\* layers exist, no marker is in neither set and none is in both.
C27_MarkerMoveAtomic ==
  sources =>
    \A i \in ValidIndices(storyData) \cup MarkersOf(State) :
      /\ ~(BagIn(i, inactive) /\ i \in SeqToSet(active))
      /\ BagIn(i, inactive) \/ i \in SeqToSet(active)

\* A step request has just moved the active marker and armed the exit
\* timer: the timer callback, a key handler, a marker click handler and
\* the language selector's handler can all run next.
C27_Witness ==
  /\ sources /\ op \in StepOps /\ isAnimating /\ timers # <<>>
  /\ active = <<currentSlideIndex>> /\ BagToSet(inactive) # {}
  /\ listeners

\* x parses to a finite number.
ParsesFinite(x) == parseFloat(x) = "finite"

\* C29: isValidLocation(loc) is true if and only if loc is present and
\* both lat and lon parse to finite numbers, for lat and lon absent, null,
\* a finite number, a numeric string, a non-numeric string, NaN or
\* infinite.
C29_ValidIffFinite ==
  op = "isValidLocation" =>
    (storyData[1].loc.valid = "valid"
       <=> /\ RawLocation(storyData[1]) # NoLocation
           /\ ParsesFinite(storyData[1].loc.lat)
           /\ ParsesFinite(storyData[1].loc.lon))

\* C29 (the code): isValidLocation(loc) is true if and only if loc is
\* present and neither lat nor lon is null, absent or parsed to NaN, so
\* that an infinite lat or lon is accepted.
C29_CodeAcceptsNonNaN ==
  op = "isValidLocation" =>
    (storyData[1].loc.valid = "valid"
       <=> /\ RawLocation(storyData[1]) # NoLocation
           /\ ~isNaN(parseFloat(storyData[1].loc.lat))
           /\ ~isNaN(parseFloat(storyData[1].loc.lon)))

\* C29: an infinite latitude has been accepted.
C29_InfiniteAccepted ==
  /\ op = "isValidLocation"
  /\ storyData[1].loc.lat = "Infinity"
  /\ storyData[1].loc.valid = "valid"

\* The indices switchLanguageWithPosition is called with: those of a story
\* and those beyond either end.
PositionArguments == (0 - 2)..(MaxSlides + 2)

\* The language codes it is called with.
LanguageArguments ==
  Selectable(texts, storyData) \cup {NoLanguage, BareEntry}

\* C30: switchLanguageWithPosition(lang, i) returns, for an available
\* language, targetSlideIndex = i when 0 <= i < newLength, newLength - 1
\* when i >= newLength, never a negative index, and 0 when
\* maintainSlidePosition is false; for an unavailable language (no key of
\* the catalog, or an entry without a slide sequence) it returns null and
\* leaves the provider's currentLanguage and storyData unchanged.
C30_PositionMaintained ==
  impl = "lib" =>
    \A lang \in LanguageArguments : \A i \in PositionArguments :
      \A maintain \in BOOLEAN :
        LET r == switchLanguageWithPosition(ProviderOf(State), texts, lang,
                                            i, maintain)
            t == r.returned.targetSlideIndex
            newLength == Len(lang)
        IN IF HasLanguage(texts, lang)
           THEN /\ ~r.threw /\ ~r.returned.null
                /\ t >= 0
                /\ (maintain /\ 0 <= i /\ i < newLength) => t = i
                /\ (maintain /\ i >= newLength) => t = newLength - 1
                /\ ~maintain => t = 0
           ELSE /\ ~r.threw /\ r.returned = NullResult
                /\ r.provider = ProviderOf(State)

\* C30 (for the codes the provider's guard tells apart): the same, with
\* only a code that is no key of the catalog as the unavailable language.
C30_PositionMaintainedForKeys ==
  impl = "lib" =>
    \A lang \in LanguageArguments \ {BareEntry} :
      \A i \in PositionArguments : \A maintain \in BOOLEAN :
        LET r == switchLanguageWithPosition(ProviderOf(State), texts, lang,
                                            i, maintain)
            t == r.returned.targetSlideIndex
            newLength == Len(lang)
        IN IF HasLanguage(texts, lang)
           THEN /\ ~r.threw /\ ~r.returned.null
                /\ t >= 0
                /\ (maintain /\ 0 <= i /\ i < newLength) => t = i
                /\ (maintain /\ i >= newLength) => t = newLength - 1
                /\ ~maintain => t = 0
           ELSE /\ ~r.threw /\ r.returned = NullResult
                /\ r.provider = ProviderOf(State)

\* C31: on the object returned by DataProviders.multilingual,
\* switchLanguage(L) for an available language L returns L's slides and
\* leaves the object with currentLanguage = L and slides = L's slides; for
\* an unavailable L it returns null and changes nothing.
C31_ObjectFollowsSwitch ==
  \A L \in LanguageArguments \ {BareEntry} : \A thisKind \in ThisKinds :
    LET r == multilingualSwitchLanguage(ObjectOf(State), GlobalObject,
                                        texts, L, thisKind)
    IN IF HasLanguage(texts, L)
       THEN /\ ~r.threw /\ r.returned = SlidesResult(L)
            /\ r.object = [currentLanguage |-> L, slides |-> L]
       ELSE /\ ~r.threw /\ r.returned = NullSlides
            /\ r.object = ObjectOf(State) /\ r.global = GlobalObject

\* C31 (the code, loaded as a classic script): switchLanguage(L) returns
\* L's slides for an available L and null otherwise, and never changes
\* the returned object.
C31_ObjectNeverChanges ==
  \A L \in LanguageArguments \ {BareEntry} :
    LET r == multilingualSwitchLanguage(ObjectOf(State), GlobalObject,
                                        texts, L, "global object")
    IN /\ ~r.threw
       /\ r.returned = IF HasLanguage(texts, L) THEN SlidesResult(L)
                                                  ELSE NullSlides
       /\ r.object = ObjectOf(State)

\* The user events of the class and of the script.
UserEvents ==
  {"prev", "next", "restart", "ArrowLeft", "ArrowRight", "markerClick"}

\* The class and the script are at the same slide, with the same
\* animation guard, marker sets and path highlights.
SameSlideState ==
  /\ currentSlideIndex = twin.currentSlideIndex
  /\ isAnimating = twin.isAnimating
  /\ active = twin.active /\ inactive = twin.inactive
  /\ activeLines = twin.activeLines

\* C32: for every sequence of prev, next, restart, arrow-key and
\* marker-click events on the same slide data, the StoryMap class and the
\* standalone script have the same currentSlideIndex, isAnimating, active
\* and inactive marker sets and path highlights, and each of these events
\* makes both issue the same camera moves.
C32_ClassMatchesScript ==
  /\ SameSlideState
  /\ op \in UserEvents => moves = twin.moves

\* C32 (what the two programs share): once both maps have loaded, with the
\* load event before the first user event, the class and the script agree
\* in state and in the camera moves of every event.
C32_AgreeWhenLoadedFirst ==
  (mapPhase = "loaded" /\ twin.mapPhase = "loaded")
    => /\ SameSlideState
       /\ op # "load" => moves = twin.moves

\* C33: whenever isAnimating is false and an initial render has happened,
\* the headline, text and media shown are those of the slide at
\* currentSlideIndex in the current slide sequence, also after a language
\* switch or a map load event that arrived during an animated transition.
C33_ContentIsCurrentSlide ==
  (~isAnimating /\ shown # NoContent)
    => shown = [idx |-> currentSlideIndex, stale |-> FALSE]

\* C33: the animation timers of a transition have fired after a language
\* switch that arrived in between, and the content on screen is the slide
\* of the replaced sequence that the exit timer's callback had captured.
C33_StaleAfterTimers ==
  /\ op = "entranceTimer" /\ ~isAnimating /\ timers = <<>>
  /\ mapPhase = "loaded" /\ MarkersPartition /\ SegmentsOfStory
  /\ shown.stale

\* C34: navigation requests that arrive while storyData is still unset
\* (before the story data has loaded, or after a failed load) are no-ops:
\* they leave currentSlideIndex at 0 and do not throw.
C34_UnloadedNavigationIsNoOp ==
  (storyData = NullData /\ op \in {"prev", "next", "goToSlide", "restart"})
    => ~threw /\ currentSlideIndex = 0

\* C35: switching to a language whose slide sequence has the same length
\* as the current one leaves currentSlideIndex unchanged, for every index
\* in [0, length - 1].
C35_SameLengthKeepsIndex ==
  [][(op' = "position" /\ Len(storyData') = Len(storyData))
       => currentSlideIndex' = currentSlideIndex]_vars

\* C35 (up to 21 slides): the same, for sequences of at most 21 slides.
C35_SameLengthKeepsIndexTo21 ==
  [][(op' = "position" /\ Len(storyData') = Len(storyData)
        /\ Len(storyData) <= 21)
       => currentSlideIndex' = currentSlideIndex]_vars

\* C35: the double arithmetic gives the exact floor for all sequences of
\* up to MaxLength slides.
C35_ExactUpToMaxLength ==
  \A n \in 1..MaxLength : \A m \in 1..MaxLength : \A i \in 0..(n - 1) :
    DoubleRatioIndex(i, n, m) = RatioIndex(i, n, m)

\* C36: after any number of language switches, each of which registers the
\* marker click handlers again, a single click on a marker causes at most
\* one navigation: currentSlideIndex ends at the clicked index and the
\* slide update (content, camera, markers, paths) is what one handler alone
\* performs, once.
C36_OneNavigationPerClick ==
  [][op' = "markerClick" =>
       \E i \in BagToSet(inactive) \cup SeqToSet(active) :
         LET one == markerClick(Begin(State, "markerClick"), i)
         IN /\ currentSlideIndex' = i
            /\ Len(moves') <= 1 /\ moves' = one.moves
            /\ shown' = one.shown /\ isAnimating' = one.isAnimating
            /\ active' = one.active /\ inactive' = one.inactive
            /\ activeLines' = one.activeLines /\ lines' = one.lines
            /\ progress' = one.progress /\ threw' = one.threw
            /\ updated' = one.updated]_vars

\* C36: a click has navigated to an inactive marker's slide with three
\* handlers registered on the layer, and the camera has moved once.
C36_Witness ==
  /\ op = "markerClick" /\ clickHandlers = MaxHandlers
  /\ active = <<currentSlideIndex>> /\ moves = <<currentSlideIndex>>
  /\ updated

\* The theme operations.
ThemeOps ==
  {"applyTheme", "createTheme", "importThemeJSON", "deleteTheme",
   "createPresetThemes", "reset"}

\* C37: after any sequence of createTheme, importThemeJSON, applyTheme,
\* deleteTheme and reset calls (including calls that throw) the theme
\* named 'default' exists and currentTheme names an existing theme;
\* deleteTheme('default') fails without changing anything, and deleting
\* the current theme switches currentTheme to 'default'.
C37_DefaultThemeProtected ==
  LET s == Begin(State, "deleteTheme")
  IN /\ "default" \in themes /\ currentTheme \in themes
     /\ deleteTheme(s, "default") = Throw(s)
     /\ currentTheme # "default" =>
          /\ ~deleteTheme(s, currentTheme).threw
          /\ deleteTheme(s, currentTheme).currentTheme = "default"
          /\ currentTheme \notin deleteTheme(s, currentTheme).themes

\* C37 (what holds): the same, where deleting the current theme switches
\* to 'default' if the stored default theme has all its sections, and
\* otherwise throws with the theme still stored and still current.
C37_DefaultThemeNamed ==
  LET s == Begin(State, "deleteTheme")
      r == deleteTheme(s, currentTheme)
  IN /\ "default" \in themes /\ currentTheme \in themes
     /\ deleteTheme(s, "default") = Throw(s)
     /\ (currentTheme # "default" /\ "default" \notin brokenThemes) =>
          /\ ~r.threw /\ r.currentTheme = "default"
          /\ currentTheme \notin r.themes
     /\ (currentTheme # "default" /\ "default" \in brokenThemes) =>
          /\ r.threw /\ r.currentTheme = currentTheme
          /\ r.themes = themes

\* C37: the default theme has been replaced by one without a section
\* while another theme is current.
C37_BrokenDefault ==
  /\ op \in ThemeOps
  /\ "default" \in brokenThemes /\ currentTheme # "default"

\* The values of lat and lon that are absent, null, a finite number, a
\* numeric string or NaN.
PlainCoordKinds ==
  {"absent", "null", "number", "zero", "numeric string", "NaN"}

\* C38: DataValidators.isValidLocation(loc) is true for exactly the
\* locations for which the navigator's isValidLocation(loc) is true, so
\* filterSlides(validLocationsOnly) keeps exactly the slides that get a
\* marker, for lat and lon each absent, null, a finite number, a numeric
\* string or NaN.
C38_ValidatorsAgree ==
  (/\ storyData[1].loc.valid # "unchecked"
   /\ storyData[1].loc.filtered # "unchecked"
   /\ storyData[1].loc.lat \in PlainCoordKinds
   /\ storyData[1].loc.lon \in PlainCoordKinds)
    => (storyData[1].loc.filtered = "kept"
          <=> storyData[1].loc.valid = "valid")

\* C38 (what holds): a slide kept by the filter has a valid location for
\* the navigator, and the two checks agree when neither lat nor lon is a
\* string.
C38_ValidatorIsStricter ==
  (/\ storyData[1].loc.valid # "unchecked"
   /\ storyData[1].loc.filtered # "unchecked")
    => /\ storyData[1].loc.filtered = "kept"
            => storyData[1].loc.valid = "valid"
       /\ (IsNumber(storyData[1].loc.lat) /\ IsNumber(storyData[1].loc.lon))
            => (storyData[1].loc.filtered = "kept"
                  <=> storyData[1].loc.valid = "valid")

====
